---- MODULE Spec2Model ----
(***************************************************************************)
(* cointoss: coin flips -> BIP39 mnemonic (src/src/main.rs).               *)
(* The model follows main(): argument selection, prompt_for_coin_flips,    *)
(* flips_to_bitstream, hash_bitstream, extract_checksum,                   *)
(* bitstream_to_mnemonic and the final println.                            *)
(***************************************************************************)
EXTENDS Integers, Sequences, FiniteSets, TLC

VARIABLES
    args,             \* struct Args: the five selector flags
    pc,               \* position of the process in main()
    words,            \* main: let words
    entropy_bits,     \* main: let entropy_bits
    flips,            \* prompt_for_coin_flips: flips, then main: coin_flips
    prompt,           \* flip number shown by the last "Flip {}: " prompt
    flip,             \* prompt_for_coin_flips: let flip, the token last read
    rejected,         \* last line printed by the collector is "Invalid input..."
    mode,             \* match arm that ended the collection
    bitstream,        \* main: let bitstream (packed bytes)
    sha256_hash,      \* main: let sha256_hash
    checksum_bits,    \* extract_checksum: checksum_bits
    final_bitstream,  \* main: let final_bitstream
    mnemonic,         \* main: let mnemonic
    printed,          \* the mnemonic line written to stdout by main
    exit_code,        \* process exit status
    failure           \* which panic ended the process

vars == << args, pc, words, entropy_bits, flips, prompt, flip, rejected, mode,
           bitstream, sha256_hash, checksum_bits, final_bitstream, mnemonic, printed,
           exit_code, failure >>

-----------------------------------------------------------------------------
(* Bounds of the explored inputs *)

\* number of selector flags that may be set together on the command line
MaxFlags == 2
\* the manual flip streams explored are FlipStream(0) .. FlipStream(MaxStream)
MaxStream == 1
\* seeds of the pseudo-random generator explored for 'qf'
MaxSeed == 0
\* sample digests returned by the hash
MaxDigestSeed == 0
\* longest flip sequence handed to the packer in PackSpec
MaxPackLen == 10

-----------------------------------------------------------------------------
(* The wordlist *)

BIP39_WORDLIST ==
  <<
    "abandon", "ability", "able", "about", "above", "absent", "absorb", "abstract",
    "absurd", "abuse", "access", "accident", "account", "accuse", "achieve", "acid",
    "acoustic", "acquire", "across", "act", "action", "actor", "actress", "actual",
    "adapt", "add", "addict", "address", "adjust", "admit", "adult", "advance",
    "advice", "aerobic", "affair", "afford", "afraid", "again", "age", "agent",
    "agree", "ahead", "aim", "air", "airport", "aisle", "alarm", "album",
    "alcohol", "alert", "alien", "all", "alley", "allow", "almost", "alone",
    "alpha", "already", "also", "alter", "always", "amateur", "amazing", "among",
    "amount", "amused", "analyst", "anchor", "ancient", "anger", "angle", "angry",
    "animal", "ankle", "announce", "annual", "another", "answer", "antenna", "antique",
    "anxiety", "any", "apart", "apology", "appear", "apple", "approve", "april",
    "arch", "arctic", "area", "arena", "argue", "arm", "armed", "armor",
    "army", "around", "arrange", "arrest", "arrive", "arrow", "art", "artefact",
    "artist", "artwork", "ask", "aspect", "assault", "asset", "assist", "assume",
    "asthma", "athlete", "atom", "attack", "attend", "attitude", "attract", "auction",
    "audit", "august", "aunt", "author", "auto", "autumn", "average", "avocado",
    "avoid", "awake", "aware", "away", "awesome", "awful", "awkward", "axis",
    "baby", "bachelor", "bacon", "badge", "bag", "balance", "balcony", "ball",
    "bamboo", "banana", "banner", "bar", "barely", "bargain", "barrel", "base",
    "basic", "basket", "battle", "beach", "bean", "beauty", "because", "become",
    "beef", "before", "begin", "behave", "behind", "believe", "below", "belt",
    "bench", "benefit", "best", "betray", "better", "between", "beyond", "bicycle",
    "bid", "bike", "bind", "biology", "bird", "birth", "bitter", "black",
    "blade", "blame", "blanket", "blast", "bleak", "bless", "blind", "blood",
    "blossom", "blouse", "blue", "blur", "blush", "board", "boat", "body",
    "boil", "bomb", "bone", "bonus", "book", "boost", "border", "boring",
    "borrow", "boss", "bottom", "bounce", "box", "boy", "bracket", "brain",
    "brand", "brass", "brave", "bread", "breeze", "brick", "bridge", "brief",
    "bright", "bring", "brisk", "broccoli", "broken", "bronze", "broom", "brother",
    "brown", "brush", "bubble", "buddy", "budget", "buffalo", "build", "bulb",
    "bulk", "bullet", "bundle", "bunker", "burden", "burger", "burst", "bus",
    "business", "busy", "butter", "buyer", "buzz", "cabbage", "cabin", "cable",
    "cactus", "cage", "cake", "call", "calm", "camera", "camp", "can",
    "canal", "cancel", "candy", "cannon", "canoe", "canvas", "canyon", "capable",
    "capital", "captain", "car", "carbon", "card", "cargo", "carpet", "carry",
    "cart", "case", "cash", "casino", "castle", "casual", "cat", "catalog",
    "catch", "category", "cattle", "caught", "cause", "caution", "cave", "ceiling",
    "celery", "cement", "census", "century", "cereal", "certain", "chair", "chalk",
    "champion", "change", "chaos", "chapter", "charge", "chase", "chat", "cheap",
    "check", "cheese", "chef", "cherry", "chest", "chicken", "chief", "child",
    "chimney", "choice", "choose", "chronic", "chuckle", "chunk", "churn", "cigar",
    "cinnamon", "circle", "citizen", "city", "civil", "claim", "clap", "clarify",
    "claw", "clay", "clean", "clerk", "clever", "click", "client", "cliff",
    "climb", "clinic", "clip", "clock", "clog", "close", "cloth", "cloud",
    "clown", "club", "clump", "cluster", "clutch", "coach", "coast", "coconut",
    "code", "coffee", "coil", "coin", "collect", "color", "column", "combine",
    "come", "comfort", "comic", "common", "company", "concert", "conduct", "confirm",
    "congress", "connect", "consider", "control", "convince", "cook", "cool", "copper",
    "copy", "coral", "core", "corn", "correct", "cost", "cotton", "couch",
    "country", "couple", "course", "cousin", "cover", "coyote", "crack", "cradle",
    "craft", "cram", "crane", "crash", "crater", "crawl", "crazy", "cream",
    "credit", "creek", "crew", "cricket", "crime", "crisp", "critic", "crop",
    "cross", "crouch", "crowd", "crucial", "cruel", "cruise", "crumble", "crunch",
    "crush", "cry", "crystal", "cube", "culture", "cup", "cupboard", "curious",
    "current", "curtain", "curve", "cushion", "custom", "cute", "cycle", "dad",
    "damage", "damp", "dance", "danger", "daring", "dash", "daughter", "dawn",
    "day", "deal", "debate", "debris", "decade", "december", "decide", "decline",
    "decorate", "decrease", "deer", "defense", "define", "defy", "degree", "delay",
    "deliver", "demand", "demise", "denial", "dentist", "deny", "depart", "depend",
    "deposit", "depth", "deputy", "derive", "describe", "desert", "design", "desk",
    "despair", "destroy", "detail", "detect", "develop", "device", "devote", "diagram",
    "dial", "diamond", "diary", "dice", "diesel", "diet", "differ", "digital",
    "dignity", "dilemma", "dinner", "dinosaur", "direct", "dirt", "disagree", "discover",
    "disease", "dish", "dismiss", "disorder", "display", "distance", "divert", "divide",
    "divorce", "dizzy", "doctor", "document", "dog", "doll", "dolphin", "domain",
    "donate", "donkey", "donor", "door", "dose", "double", "dove", "draft",
    "dragon", "drama", "drastic", "draw", "dream", "dress", "drift", "drill",
    "drink", "drip", "drive", "drop", "drum", "dry", "duck", "dumb",
    "dune", "during", "dust", "dutch", "duty", "dwarf", "dynamic", "eager",
    "eagle", "early", "earn", "earth", "easily", "east", "easy", "echo",
    "ecology", "economy", "edge", "edit", "educate", "effort", "egg", "eight",
    "either", "elbow", "elder", "electric", "elegant", "element", "elephant", "elevator",
    "elite", "else", "embark", "embody", "embrace", "emerge", "emotion", "employ",
    "empower", "empty", "enable", "enact", "end", "endless", "endorse", "enemy",
    "energy", "enforce", "engage", "engine", "enhance", "enjoy", "enlist", "enough",
    "enrich", "enroll", "ensure", "enter", "entire", "entry", "envelope", "episode",
    "equal", "equip", "era", "erase", "erode", "erosion", "error", "erupt",
    "escape", "essay", "essence", "estate", "eternal", "ethics", "evidence", "evil",
    "evoke", "evolve", "exact", "example", "excess", "exchange", "excite", "exclude",
    "excuse", "execute", "exercise", "exhaust", "exhibit", "exile", "exist", "exit",
    "exotic", "expand", "expect", "expire", "explain", "expose", "express", "extend",
    "extra", "eye", "eyebrow", "fabric", "face", "faculty", "fade", "faint",
    "faith", "fall", "false", "fame", "family", "famous", "fan", "fancy",
    "fantasy", "farm", "fashion", "fat", "fatal", "father", "fatigue", "fault",
    "favorite", "feature", "february", "federal", "fee", "feed", "feel", "female",
    "fence", "festival", "fetch", "fever", "few", "fiber", "fiction", "field",
    "figure", "file", "film", "filter", "final", "find", "fine", "finger",
    "finish", "fire", "firm", "first", "fiscal", "fish", "fit", "fitness",
    "fix", "flag", "flame", "flash", "flat", "flavor", "flee", "flight",
    "flip", "float", "flock", "floor", "flower", "fluid", "flush", "fly",
    "foam", "focus", "fog", "foil", "fold", "follow", "food", "foot",
    "force", "forest", "forget", "fork", "fortune", "forum", "forward", "fossil",
    "foster", "found", "fox", "fragile", "frame", "frequent", "fresh", "friend",
    "fringe", "frog", "front", "frost", "frown", "frozen", "fruit", "fuel",
    "fun", "funny", "furnace", "fury", "future", "gadget", "gain", "galaxy",
    "gallery", "game", "gap", "garage", "garbage", "garden", "garlic", "garment",
    "gas", "gasp", "gate", "gather", "gauge", "gaze", "general", "genius",
    "genre", "gentle", "genuine", "gesture", "ghost", "giant", "gift", "giggle",
    "ginger", "giraffe", "girl", "give", "glad", "glance", "glare", "glass",
    "glide", "glimpse", "globe", "gloom", "glory", "glove", "glow", "glue",
    "goat", "goddess", "gold", "good", "goose", "gorilla", "gospel", "gossip",
    "govern", "gown", "grab", "grace", "grain", "grant", "grape", "grass",
    "gravity", "great", "green", "grid", "grief", "grit", "grocery", "group",
    "grow", "grunt", "guard", "guess", "guide", "guilt", "guitar", "gun",
    "gym", "habit", "hair", "half", "hammer", "hamster", "hand", "happy",
    "harbor", "hard", "harsh", "harvest", "hat", "have", "hawk", "hazard",
    "head", "health", "heart", "heavy", "hedgehog", "height", "hello", "helmet",
    "help", "hen", "hero", "hidden", "high", "hill", "hint", "hip",
    "hire", "history", "hobby", "hockey", "hold", "hole", "holiday", "hollow",
    "home", "honey", "hood", "hope", "horn", "horror", "horse", "hospital",
    "host", "hotel", "hour", "hover", "hub", "huge", "human", "humble",
    "humor", "hundred", "hungry", "hunt", "hurdle", "hurry", "hurt", "husband",
    "hybrid", "ice", "icon", "idea", "identify", "idle", "ignore", "ill",
    "illegal", "illness", "image", "imitate", "immense", "immune", "impact", "impose",
    "improve", "impulse", "inch", "include", "income", "increase", "index", "indicate",
    "indoor", "industry", "infant", "inflict", "inform", "inhale", "inherit", "initial",
    "inject", "injury", "inmate", "inner", "innocent", "input", "inquiry", "insane",
    "insect", "inside", "inspire", "install", "intact", "interest", "into", "invest",
    "invite", "involve", "iron", "island", "isolate", "issue", "item", "ivory",
    "jacket", "jaguar", "jar", "jazz", "jealous", "jeans", "jelly", "jewel",
    "job", "join", "joke", "journey", "joy", "judge", "juice", "jump",
    "jungle", "junior", "junk", "just", "kangaroo", "keen", "keep", "ketchup",
    "key", "kick", "kid", "kidney", "kind", "kingdom", "kiss", "kit",
    "kitchen", "kite", "kitten", "kiwi", "knee", "knife", "knock", "know",
    "lab", "label", "labor", "ladder", "lady", "lake", "lamp", "language",
    "laptop", "large", "later", "latin", "laugh", "laundry", "lava", "law",
    "lawn", "lawsuit", "layer", "lazy", "leader", "leaf", "learn", "leave",
    "lecture", "left", "leg", "legal", "legend", "leisure", "lemon", "lend",
    "length", "lens", "leopard", "lesson", "letter", "level", "liar", "liberty",
    "library", "license", "life", "lift", "light", "like", "limb", "limit",
    "link", "lion", "liquid", "list", "little", "live", "lizard", "load",
    "loan", "lobster", "local", "lock", "logic", "lonely", "long", "loop",
    "lottery", "loud", "lounge", "love", "loyal", "lucky", "luggage", "lumber",
    "lunar", "lunch", "luxury", "lyrics", "machine", "mad", "magic", "magnet",
    "maid", "mail", "main", "major", "make", "mammal", "man", "manage",
    "mandate", "mango", "mansion", "manual", "maple", "marble", "march", "margin",
    "marine", "market", "marriage", "mask", "mass", "master", "match", "material",
    "math", "matrix", "matter", "maximum", "maze", "meadow", "mean", "measure",
    "meat", "mechanic", "medal", "media", "melody", "melt", "member", "memory",
    "mention", "menu", "mercy", "merge", "merit", "merry", "mesh", "message",
    "metal", "method", "middle", "midnight", "milk", "million", "mimic", "mind",
    "minimum", "minor", "minute", "miracle", "mirror", "misery", "miss", "mistake",
    "mix", "mixed", "mixture", "mobile", "model", "modify", "mom", "moment",
    "monitor", "monkey", "monster", "month", "moon", "moral", "more", "morning",
    "mosquito", "mother", "motion", "motor", "mountain", "mouse", "move", "movie",
    "much", "muffin", "mule", "multiply", "muscle", "museum", "mushroom", "music",
    "must", "mutual", "myself", "mystery", "myth", "naive", "name", "napkin",
    "narrow", "nasty", "nation", "nature", "near", "neck", "need", "negative",
    "neglect", "neither", "nephew", "nerve", "nest", "net", "network", "neutral",
    "never", "news", "next", "nice", "night", "noble", "noise", "nominee",
    "noodle", "normal", "north", "nose", "notable", "note", "nothing", "notice",
    "novel", "now", "nuclear", "number", "nurse", "nut", "oak", "obey",
    "object", "oblige", "obscure", "observe", "obtain", "obvious", "occur", "ocean",
    "october", "odor", "off", "offer", "office", "often", "oil", "okay",
    "old", "olive", "olympic", "omit", "once", "one", "onion", "online",
    "only", "open", "opera", "opinion", "oppose", "option", "orange", "orbit",
    "orchard", "order", "ordinary", "organ", "orient", "original", "orphan", "ostrich",
    "other", "outdoor", "outer", "output", "outside", "oval", "oven", "over",
    "own", "owner", "oxygen", "oyster", "ozone", "pact", "paddle", "page",
    "pair", "palace", "palm", "panda", "panel", "panic", "panther", "paper",
    "parade", "parent", "park", "parrot", "party", "pass", "patch", "path",
    "patient", "patrol", "pattern", "pause", "pave", "payment", "peace", "peanut",
    "pear", "peasant", "pelican", "pen", "penalty", "pencil", "people", "pepper",
    "perfect", "permit", "person", "pet", "phone", "photo", "phrase", "physical",
    "piano", "picnic", "picture", "piece", "pig", "pigeon", "pill", "pilot",
    "pink", "pioneer", "pipe", "pistol", "pitch", "pizza", "place", "planet",
    "plastic", "plate", "play", "please", "pledge", "pluck", "plug", "plunge",
    "poem", "poet", "point", "polar", "pole", "police", "pond", "pony",
    "pool", "popular", "portion", "position", "possible", "post", "potato", "pottery",
    "poverty", "powder", "power", "practice", "praise", "predict", "prefer", "prepare",
    "present", "pretty", "prevent", "price", "pride", "primary", "print", "priority",
    "prison", "private", "prize", "problem", "process", "produce", "profit", "program",
    "project", "promote", "proof", "property", "prosper", "protect", "proud", "provide",
    "public", "pudding", "pull", "pulp", "pulse", "pumpkin", "punch", "pupil",
    "puppy", "purchase", "purity", "purpose", "purse", "push", "put", "puzzle",
    "pyramid", "quality", "quantum", "quarter", "question", "quick", "quit", "quiz",
    "quote", "rabbit", "raccoon", "race", "rack", "radar", "radio", "rail",
    "rain", "raise", "rally", "ramp", "ranch", "random", "range", "rapid",
    "rare", "rate", "rather", "raven", "raw", "razor", "ready", "real",
    "reason", "rebel", "rebuild", "recall", "receive", "recipe", "record", "recycle",
    "reduce", "reflect", "reform", "refuse", "region", "regret", "regular", "reject",
    "relax", "release", "relief", "rely", "remain", "remember", "remind", "remove",
    "render", "renew", "rent", "reopen", "repair", "repeat", "replace", "report",
    "require", "rescue", "resemble", "resist", "resource", "response", "result", "retire",
    "retreat", "return", "reunion", "reveal", "review", "reward", "rhythm", "rib",
    "ribbon", "rice", "rich", "ride", "ridge", "rifle", "right", "rigid",
    "ring", "riot", "ripple", "risk", "ritual", "rival", "river", "road",
    "roast", "robot", "robust", "rocket", "romance", "roof", "rookie", "room",
    "rose", "rotate", "rough", "round", "route", "royal", "rubber", "rude",
    "rug", "rule", "run", "runway", "rural", "sad", "saddle", "sadness",
    "safe", "sail", "salad", "salmon", "salon", "salt", "salute", "same",
    "sample", "sand", "satisfy", "satoshi", "sauce", "sausage", "save", "say",
    "scale", "scan", "scare", "scatter", "scene", "scheme", "school", "science",
    "scissors", "scorpion", "scout", "scrap", "screen", "script", "scrub", "sea",
    "search", "season", "seat", "second", "secret", "section", "security", "seed",
    "seek", "segment", "select", "sell", "seminar", "senior", "sense", "sentence",
    "series", "service", "session", "settle", "setup", "seven", "shadow", "shaft",
    "shallow", "share", "shed", "shell", "sheriff", "shield", "shift", "shine",
    "ship", "shiver", "shock", "shoe", "shoot", "shop", "short", "shoulder",
    "shove", "shrimp", "shrug", "shuffle", "shy", "sibling", "sick", "side",
    "siege", "sight", "sign", "silent", "silk", "silly", "silver", "similar",
    "simple", "since", "sing", "siren", "sister", "situate", "six", "size",
    "skate", "sketch", "ski", "skill", "skin", "skirt", "skull", "slab",
    "slam", "sleep", "slender", "slice", "slide", "slight", "slim", "slogan",
    "slot", "slow", "slush", "small", "smart", "smile", "smoke", "smooth",
    "snack", "snake", "snap", "sniff", "snow", "soap", "soccer", "social",
    "sock", "soda", "soft", "solar", "soldier", "solid", "solution", "solve",
    "someone", "song", "soon", "sorry", "sort", "soul", "sound", "soup",
    "source", "south", "space", "spare", "spatial", "spawn", "speak", "special",
    "speed", "spell", "spend", "sphere", "spice", "spider", "spike", "spin",
    "spirit", "split", "spoil", "sponsor", "spoon", "sport", "spot", "spray",
    "spread", "spring", "spy", "square", "squeeze", "squirrel", "stable", "stadium",
    "staff", "stage", "stairs", "stamp", "stand", "start", "state", "stay",
    "steak", "steel", "stem", "step", "stereo", "stick", "still", "sting",
    "stock", "stomach", "stone", "stool", "story", "stove", "strategy", "street",
    "strike", "strong", "struggle", "student", "stuff", "stumble", "style", "subject",
    "submit", "subway", "success", "such", "sudden", "suffer", "sugar", "suggest",
    "suit", "summer", "sun", "sunny", "sunset", "super", "supply", "supreme",
    "sure", "surface", "surge", "surprise", "surround", "survey", "suspect", "sustain",
    "swallow", "swamp", "swap", "swarm", "swear", "sweet", "swift", "swim",
    "swing", "switch", "sword", "symbol", "symptom", "syrup", "system", "table",
    "tackle", "tag", "tail", "talent", "talk", "tank", "tape", "target",
    "task", "taste", "tattoo", "taxi", "teach", "team", "tell", "ten",
    "tenant", "tennis", "tent", "term", "test", "text", "thank", "that",
    "theme", "then", "theory", "there", "they", "thing", "this", "thought",
    "three", "thrive", "throw", "thumb", "thunder", "ticket", "tide", "tiger",
    "tilt", "timber", "time", "tiny", "tip", "tired", "tissue", "title",
    "toast", "tobacco", "today", "toddler", "toe", "together", "toilet", "token",
    "tomato", "tomorrow", "tone", "tongue", "tonight", "tool", "tooth", "top",
    "topic", "topple", "torch", "tornado", "tortoise", "toss", "total", "tourist",
    "toward", "tower", "town", "toy", "track", "trade", "traffic", "tragic",
    "train", "transfer", "trap", "trash", "travel", "tray", "treat", "tree",
    "trend", "trial", "tribe", "trick", "trigger", "trim", "trip", "trophy",
    "trouble", "truck", "true", "truly", "trumpet", "trust", "truth", "try",
    "tube", "tuition", "tumble", "tuna", "tunnel", "turkey", "turn", "turtle",
    "twelve", "twenty", "twice", "twin", "twist", "two", "type", "typical",
    "ugly", "umbrella", "unable", "unaware", "uncle", "uncover", "under", "undo",
    "unfair", "unfold", "unhappy", "uniform", "unique", "unit", "universe", "unknown",
    "unlock", "until", "unusual", "unveil", "update", "upgrade", "uphold", "upon",
    "upper", "upset", "urban", "urge", "usage", "use", "used", "useful",
    "useless", "usual", "utility", "vacant", "vacuum", "vague", "valid", "valley",
    "valve", "van", "vanish", "vapor", "various", "vast", "vault", "vehicle",
    "velvet", "vendor", "venture", "venue", "verb", "verify", "version", "very",
    "vessel", "veteran", "viable", "vibrant", "vicious", "victory", "video", "view",
    "village", "vintage", "violin", "virtual", "virus", "visa", "visit", "visual",
    "vital", "vivid", "vocal", "voice", "void", "volcano", "volume", "vote",
    "voyage", "wage", "wagon", "wait", "walk", "wall", "walnut", "want",
    "warfare", "warm", "warrior", "wash", "wasp", "waste", "water", "wave",
    "way", "wealth", "weapon", "wear", "weasel", "weather", "web", "wedding",
    "weekend", "weird", "welcome", "west", "wet", "whale", "what", "wheat",
    "wheel", "when", "where", "whip", "whisper", "wide", "width", "wife",
    "wild", "will", "win", "window", "wine", "wing", "wink", "winner",
    "winter", "wire", "wisdom", "wise", "wish", "witness", "wolf", "woman",
    "wonder", "wood", "wool", "word", "work", "world", "worry", "worth",
    "wrap", "wreck", "wrestle", "wrist", "write", "wrong", "yard", "year",
    "yellow", "you", "young", "youth", "zebra", "zero", "zone", "zoo"
  >>

-----------------------------------------------------------------------------
(* Process exit statuses *)

\* the process has not exited
NoExit == -1
\* main returned, or std::process::exit(0)
ExitSuccess == 0
\* status of a Rust process that ends in panic!/assert!
ExitPanic == 101

\* no selector matched: the else branch of the selection chain
NoWords == 0

SupportedWords == {12, 15, 18, 21, 24}
SupportedEnt == {128, 160, 192, 224, 256}

-----------------------------------------------------------------------------
(* u8 / u16 arithmetic *)

\* (byte >> k) & 1
BitAt(byte, k) == (byte \div (2 ^ k)) % 2

\* u8 << k : bits shifted past bit 7 are dropped
Shl8(b, k) == (b * (2 ^ k)) % 256

\* u16 << 1
Shl16(b) == (b * 2) % 65536

\* a | b on unsigned integers
RECURSIVE BitOr(_, _)
BitOr(a, b) ==
    IF a = 0 THEN b
    ELSE IF b = 0 THEN a
    ELSE (IF a % 2 = 1 \/ b % 2 = 1 THEN 1 ELSE 0) + 2 * BitOr(a \div 2, b \div 2)

-----------------------------------------------------------------------------
(* Argument selection *)

Flags == {"twelve", "fifteen", "eighteen", "twenty_one", "twenty_four"}

\* the Args values explored: at most MaxFlags flags set on one command line
ArgsSet == { a \in [Flags -> BOOLEAN] : Cardinality({f \in Flags : a[f]}) <= MaxFlags }

\* let words = if args.twelve { 12 } else if ... else { panic!(..) }
SelectWords(a) ==
    IF a.twelve THEN 12
    ELSE IF a.fifteen THEN 15
    ELSE IF a.eighteen THEN 18
    ELSE IF a.twenty_one THEN 21
    ELSE IF a.twenty_four THEN 24
    ELSE NoWords

get_entropy_bits(w) ==
    CASE w = 12 -> 128
      [] w = 15 -> 160
      [] w = 18 -> 192
      [] w = 21 -> 224
      [] w = 24 -> 256

-----------------------------------------------------------------------------
(* prompt_for_coin_flips *)

\* no line has been read yet
NoToken == "<none>"

\* tokens that fall to the `_` arm of the match (after trim and to_lowercase)
InvalidTokens == {"", "heads"}

binary_segments ==
    << <<"1","1","1","1","1","1","1","0","0","0","0">>,
       <<"1","1","1","1","1","1","1","0","0","0","0">>,
       <<"1","1","1","1","1","1","1","0","0","0","0">>,
       <<"1","1","1","1","1","1","1","0","0","0","0">>,
       <<"1","1","1","1","1","1","1","0","0","0","0">>,
       <<"1","1","1","1","1","1","1","0","0","0","0">>,
       <<"1","1","1","1","1","1","1","0","0","0","0">>,
       <<"1","1","1","1","1","1","1","0","0","0","0">>,
       <<"1","1","1","1","1","1","1","0","0","0","0">>,
       <<"1","1","1","1","1","1","1","0","0","0","0">>,
       <<"1","1","1","1","1","1","1","0","0","0","0">>,
       <<"1","1","1","1","1","1","1">> >>

\* bit.to_digit(2).unwrap() as u8
to_digit(c) == IF c = "1" THEN 1 ELSE 0

\* segments.iter().flat_map(|segment| segment.chars().map(..)).collect()
RECURSIVE FlatMapDigits(_)
FlatMapDigits(segs) ==
    IF segs = <<>> THEN <<>>
    ELSE [k \in 1..Len(Head(segs)) |-> to_digit(Head(segs)[k])] \o FlatMapDigits(Tail(segs))

PresetBits == FlatMapDigits(binary_segments)

\* one outcome of rng.gen_range(0..=1) for the j-th remaining flip
RngBit(seed, j) == ((j * (seed + 1)) + (j \div 3) + seed) % 2

\* (0..remaining).map(|_| rng.gen_range(0..=1))
RandomFlips(seed, remaining) == [j \in 1..remaining |-> RngBit(seed, j)]

\* faulty variant: the fill stops one flip short
HeadsFill_OneShort(remaining) == [j \in 1..(remaining - 1) |-> 1]

\* vec![1; remaining]
HeadsFill(remaining) == [j \in 1..remaining |-> 1]

\* the j-th coin flip of the s-th explored stream of manual flips
StreamBit(s, j) == ((s * (j + 2)) \div 2) % 2

\* the user may enter `bit` next: some explored stream continues fl with it
FlipAllowed(fl, bit) ==
    \E s \in 0..MaxStream :
        /\ StreamBit(s, Len(fl) + 1) = bit
        /\ \A j \in 1..Len(fl) : fl[j] = StreamBit(s, j)

-----------------------------------------------------------------------------
(* flips_to_bitstream *)

\* the loop body for the flips from position i up to the next emitted byte:
\* current_byte = (current_byte << 1) | flip; bit_count += 1
RECURSIVE AccumulateByte(_, _, _, _)
AccumulateByte(fl, i, current_byte, bit_count) ==
    IF i > Len(fl) \/ bit_count = 8
    THEN [current_byte |-> current_byte, bit_count |-> bit_count]
    ELSE AccumulateByte(fl, i + 1, BitOr(Shl8(current_byte, 1), fl[i]), bit_count + 1)

\* if bit_count == 8 { bitstream.push(current_byte); current_byte = 0; bit_count = 0 }
RECURSIVE PackLoop(_, _, _)
PackLoop(fl, i, bs) ==
    LET r == AccumulateByte(fl, i, 0, 0)
    IN  IF r.bit_count = 8
        THEN PackLoop(fl, i + 8, Append(bs, r.current_byte))
        ELSE [current_byte |-> r.current_byte, bit_count |-> r.bit_count,
              bitstream |-> bs]

\* faulty variant: the partial last byte is pushed without the left shift
flips_to_bitstream_NoShift(fl) ==
    LET r == PackLoop(fl, 1, <<>>)
    IN  IF r.bit_count > 0
        THEN Append(r.bitstream, r.current_byte)
        ELSE r.bitstream

flips_to_bitstream(fl) ==
    LET r == PackLoop(fl, 1, <<>>)
    IN  IF r.bit_count > 0
        THEN Append(r.bitstream, Shl8(r.current_byte, 8 - r.bit_count))
        ELSE r.bitstream

-----------------------------------------------------------------------------
(* hash_bitstream: the digest is the output of the sha2 library *)

\* a sample 32-byte digest
SampleDigest(seed) == [k \in 1..32 |-> (165 + 90 * seed + 29 * k * (seed + 1)) % 256]

Digests == { SampleDigest(s) : s \in 0..MaxDigestSeed }

-----------------------------------------------------------------------------
(* extract_checksum *)

RECURSIVE ChecksumLoop(_, _, _, _, _)
ChecksumLoop(hash, b, bit_index, cs, checksum_size) ==
    IF b > Len(hash) THEN cs
    ELSE LET cs1 == Append(cs, BitAt(hash[b], bit_index))
         IN  IF Len(cs1) = checksum_size THEN cs1
             ELSE IF bit_index = 0
                  THEN ChecksumLoop(hash, b + 1, 7, cs1, checksum_size)
                  ELSE ChecksumLoop(hash, b, bit_index - 1, cs1, checksum_size)

\* faulty variant: the first digest byte is read least-significant bit first
ExtractChecksumBits_LsbFirst(hash, ent) ==
    [i \in 1..(ent \div 32) |-> BitAt(hash[1], i - 1)]

ExtractChecksumBits(hash, ent) == ChecksumLoop(hash, 1, 7, <<>>, ent \div 32)

\* faulty variant: each byte is expanded least-significant bit first
BytesToBits_LsbFirst(bs) ==
    [k \in 1..(8 * Len(bs)) |-> BitAt(bs[((k - 1) \div 8) + 1], (k - 1) % 8)]

\* for byte in &bitstream { for bit_index in (0..8).rev() { push((byte >> bit_index) & 1) } }
BytesToBits(bs) ==
    [k \in 1..(8 * Len(bs)) |-> BitAt(bs[((k - 1) \div 8) + 1], 7 - ((k - 1) % 8))]

\* faulty variant: the final length is not asserted
extract_checksum_NoAssert(bs, hash, ent) ==
    LET cs == ExtractChecksumBits(hash, ent)
    IN  [checksum_bits |-> cs,
         final_bitstream |-> BytesToBits(bs) \o cs,
         panic |-> "none"]

extract_checksum(bs, hash, ent) ==
    LET checksum_size == ent \div 32
        cs == ExtractChecksumBits(hash, ent)
        fb == BytesToBits(bs) \o cs
    IN  [checksum_bits |-> cs,
         final_bitstream |-> fb,
         panic |-> IF Len(fb) = ent + checksum_size THEN "none" ELSE "final_length"]

-----------------------------------------------------------------------------
(* bitstream_to_mnemonic *)

\* faulty variant: the chunk is read as a little-endian number
RECURSIVE FoldIndex_LittleEndian(_, _, _)
FoldIndex_LittleEndian(chunk, k, acc) ==
    IF k > Len(chunk) THEN acc
    ELSE FoldIndex_LittleEndian(chunk, k + 1, acc + chunk[k] * (2 ^ (k - 1)))

\* chunk.iter().fold(0, |acc, &bit| (acc << 1) | bit as u16)
RECURSIVE FoldIndex(_, _, _)
FoldIndex(chunk, k, acc) ==
    IF k > Len(chunk) THEN acc
    ELSE FoldIndex(chunk, k + 1, BitOr(Shl16(acc), chunk[k]))

RECURSIVE EncodeLoop(_, _, _, _)
EncodeLoop(fb, wordlist, chunk_start, mn) ==
    IF chunk_start >= 132 THEN [panic |-> "none", mnemonic |-> mn]
    ELSE LET chunk == SubSeq(fb, chunk_start + 1, chunk_start + 11)
             index == FoldIndex(chunk, 1, 0)
         IN  IF ~(index <= 2047)
             THEN [panic |-> "index_range", mnemonic |-> <<>>]
             ELSE EncodeLoop(fb, wordlist, chunk_start + 11,
                             Append(mn, wordlist[index + 1]))

\* faulty variant: the length is not checked and the first 132 bits are encoded
bitstream_to_mnemonic_NoLengthCheck(fb, wordlist) ==
    EncodeLoop(fb, wordlist, 0, <<>>)

bitstream_to_mnemonic(fb, wordlist) ==
    IF Len(fb) # 132
    THEN [panic |-> "bitstream_length", mnemonic |-> <<>>]
    ELSE EncodeLoop(fb, wordlist, 0, <<>>)

\* mnemonic.join(" ")
RECURSIVE Join(_, _)
Join(ws, sep) ==
    IF ws = <<>> THEN ""
    ELSE IF Len(ws) = 1 THEN ws[1]
    ELSE ws[1] \o sep \o Join(Tail(ws), sep)

\* format!("Mnemonic: {:?}", s)
MnemonicLine(s) == "Mnemonic: \"" \o s \o "\""

-----------------------------------------------------------------------------
(* The process *)

Init ==
    /\ args \in ArgsSet
    /\ pc = "parse"
    /\ words = NoWords
    /\ entropy_bits = 0
    /\ flips = <<>>
    /\ prompt = 0
    /\ flip = NoToken
    /\ rejected = FALSE
    /\ mode = "none"
    /\ bitstream = <<>>
    /\ sha256_hash = <<>>
    /\ checksum_bits = <<>>
    /\ final_bitstream = <<>>
    /\ mnemonic = <<>>
    /\ printed = ""
    /\ exit_code = NoExit
    /\ failure = "none"

\* panic!/assert! unwinds main: nothing further runs
Panic(site) ==
    /\ pc' = "failed"
    /\ failure' = site
    /\ exit_code' = ExitPanic

\* main, lines 133-151
ParseArgs ==
    /\ pc = "parse"
    /\ IF SelectWords(args) = NoWords
       THEN /\ Panic("no_word_count")
            /\ UNCHANGED << words, entropy_bits, prompt >>
       ELSE /\ words' = SelectWords(args)
            /\ entropy_bits' = get_entropy_bits(SelectWords(args))
            /\ pc' = "collect"
            /\ prompt' = Len(flips) + 1
            /\ UNCHANGED << failure, exit_code >>
    /\ UNCHANGED << flip, args, flips, rejected, mode, bitstream, sha256_hash,
                    checksum_bits, final_bitstream, mnemonic, printed >>

\* faulty variant: heads is stored as 0
Heads_StoresZero ==
    /\ pc = "collect"
    /\ flip' = "h"
    /\ FlipAllowed(flips, 1)
    /\ flips' = Append(flips, 0)
    /\ rejected' = FALSE
    /\ IF Len(flips) + 1 = entropy_bits
       THEN pc' = "pack" /\ mode' = "flips" /\ prompt' = prompt
       ELSE pc' = "collect" /\ mode' = mode /\ prompt' = Len(flips) + 2
    /\ UNCHANGED << args, words, entropy_bits, bitstream, sha256_hash,
                    checksum_bits, final_bitstream, mnemonic, printed,
                    exit_code, failure >>

\* faulty variant: the for loop runs one iteration too many (0..=entropy_bits)
Heads_OneTooMany ==
    /\ pc = "collect"
    /\ flip' = "h"
    /\ FlipAllowed(flips, 1)
    /\ flips' = Append(flips, 1)
    /\ rejected' = FALSE
    /\ IF Len(flips) + 1 = entropy_bits + 1
       THEN pc' = "pack" /\ mode' = "flips" /\ prompt' = prompt
       ELSE pc' = "collect" /\ mode' = mode /\ prompt' = Len(flips) + 2
    /\ UNCHANGED << args, words, entropy_bits, bitstream, sha256_hash,
                    checksum_bits, final_bitstream, mnemonic, printed,
                    exit_code, failure >>

\* "h" => flips.push(1); the for loop ends after entropy_bits iterations
\* and the function returns flips
Heads ==
    /\ pc = "collect"
    /\ flip' = "h"
    /\ FlipAllowed(flips, 1)
    /\ flips' = Append(flips, 1)
    /\ rejected' = FALSE
    /\ IF Len(flips) + 1 = entropy_bits
       THEN pc' = "pack" /\ mode' = "flips" /\ prompt' = prompt
       ELSE pc' = "collect" /\ mode' = mode /\ prompt' = Len(flips) + 2
    /\ UNCHANGED << args, words, entropy_bits, bitstream, sha256_hash,
                    checksum_bits, final_bitstream, mnemonic, printed,
                    exit_code, failure >>

\* "t" => flips.push(0)
Tails ==
    /\ pc = "collect"
    /\ flip' = "t"
    /\ FlipAllowed(flips, 0)
    /\ flips' = Append(flips, 0)
    /\ rejected' = FALSE
    /\ IF Len(flips) + 1 = entropy_bits
       THEN pc' = "pack" /\ mode' = "flips" /\ prompt' = prompt
       ELSE pc' = "collect" /\ mode' = mode /\ prompt' = Len(flips) + 2
    /\ UNCHANGED << args, words, entropy_bits, bitstream, sha256_hash,
                    checksum_bits, final_bitstream, mnemonic, printed,
                    exit_code, failure >>

\* "qf"
QuitFlipping ==
    /\ pc = "collect"
    /\ flip' = "qf"
    /\ \E seed \in 0..MaxSeed :
          flips' = flips \o RandomFlips(seed, entropy_bits - Len(flips))
    /\ rejected' = FALSE
    /\ mode' = "qf"
    /\ pc' = "pack"
    /\ UNCHANGED << prompt, args, words, entropy_bits, bitstream, sha256_hash,
                    checksum_bits, final_bitstream, mnemonic, printed,
                    exit_code, failure >>

\* faulty variant: qq exits with status 1
QuitProgram_ExitOne ==
    /\ pc = "collect"
    /\ flip' = "qq"
    /\ pc' = "aborted"
    /\ exit_code' = 1
    /\ mode' = "qq"
    /\ rejected' = FALSE
    /\ UNCHANGED << prompt, args, words, entropy_bits, flips, bitstream,
                    sha256_hash, checksum_bits, final_bitstream, mnemonic,
                    printed, failure >>

\* faulty variant: qq leaves the loop instead of the process
QuitProgram_Continues ==
    /\ pc = "collect"
    /\ flip' = "qq"
    /\ pc' = "pack"
    /\ mode' = "qq"
    /\ rejected' = FALSE
    /\ UNCHANGED << prompt, args, words, entropy_bits, flips, bitstream,
                    sha256_hash, checksum_bits, final_bitstream, mnemonic,
                    printed, exit_code, failure >>

\* "qq"
QuitProgram ==
    /\ pc = "collect"
    /\ flip' = "qq"
    /\ pc' = "aborted"
    /\ exit_code' = ExitSuccess
    /\ mode' = "qq"
    /\ rejected' = FALSE
    /\ UNCHANGED << prompt, args, words, entropy_bits, flips, bitstream, sha256_hash,
                    checksum_bits, final_bitstream, mnemonic, printed, failure >>

\* faulty variant: the preset only completes the flips already collected
Preload_KeepsPrefix ==
    /\ pc = "collect"
    /\ flip' = "preload"
    /\ flips' = IF Len(flips) < Len(PresetBits)
                THEN flips \o SubSeq(PresetBits, Len(flips) + 1, Len(PresetBits))
                ELSE flips
    /\ rejected' = FALSE
    /\ mode' = "preload"
    /\ pc' = "pack"
    /\ UNCHANGED << prompt, args, words, entropy_bits, bitstream, sha256_hash,
                    checksum_bits, final_bitstream, mnemonic, printed,
                    exit_code, failure >>

\* "preload"
Preload ==
    /\ pc = "collect"
    /\ flip' = "preload"
    /\ flips' = PresetBits
    /\ rejected' = FALSE
    /\ mode' = "preload"
    /\ pc' = "pack"
    /\ UNCHANGED << prompt, args, words, entropy_bits, bitstream, sha256_hash,
                    checksum_bits, final_bitstream, mnemonic, printed,
                    exit_code, failure >>

\* faulty variant: fill discards the flips already collected
Fill_DropsPrefix ==
    /\ pc = "collect"
    /\ flip' = "fill"
    /\ flips' = HeadsFill(entropy_bits)
    /\ rejected' = FALSE
    /\ mode' = "fill"
    /\ pc' = "pack"
    /\ UNCHANGED << prompt, args, words, entropy_bits, bitstream, sha256_hash,
                    checksum_bits, final_bitstream, mnemonic, printed,
                    exit_code, failure >>

\* "fill"
Fill ==
    /\ pc = "collect"
    /\ flip' = "fill"
    /\ flips' = flips \o HeadsFill(entropy_bits - Len(flips))
    /\ rejected' = FALSE
    /\ mode' = "fill"
    /\ pc' = "pack"
    /\ UNCHANGED << prompt, args, words, entropy_bits, bitstream, sha256_hash,
                    checksum_bits, final_bitstream, mnemonic, printed,
                    exit_code, failure >>

\* faulty variant: an unrecognized token is taken as tails
InvalidInput_Coerced ==
    /\ pc = "collect"
    /\ Len(flips) + 1 < entropy_bits
    /\ \E token \in InvalidTokens : flip' = token
    /\ rejected' = TRUE
    /\ flips' = Append(flips, 0)
    /\ prompt' = Len(flips) + 2
    /\ UNCHANGED << args, pc, words, entropy_bits, mode, bitstream,
                    sha256_hash, checksum_bits, final_bitstream, mnemonic,
                    printed, exit_code, failure >>

\* _ => println!("Invalid input..."); input.clear(); and the loop prompts again
InvalidInput ==
    /\ pc = "collect"
    /\ \E token \in InvalidTokens : flip' = token
    /\ rejected' = TRUE
    /\ prompt' = Len(flips) + 1
    /\ UNCHANGED << args, pc, words, entropy_bits, flips, mode, bitstream,
                    sha256_hash, checksum_bits, final_bitstream, mnemonic,
                    printed, exit_code, failure >>

\* main, line 157
Pack ==
    /\ pc = "pack"
    /\ bitstream' = flips_to_bitstream(flips)
    /\ pc' = "hash"
    /\ UNCHANGED << flip, prompt, args, words, entropy_bits, flips, rejected, mode,
                    sha256_hash, checksum_bits, final_bitstream, mnemonic,
                    printed, exit_code, failure >>

\* main, line 160
Hash ==
    /\ pc = "hash"
    /\ sha256_hash' \in Digests
    /\ pc' = "checksum"
    /\ UNCHANGED << flip, prompt, args, words, entropy_bits, flips, rejected, mode,
                    bitstream, checksum_bits, final_bitstream, mnemonic,
                    printed, exit_code, failure >>

\* main, line 163
ExtractChecksum ==
    /\ pc = "checksum"
    /\ LET r == extract_checksum(bitstream, sha256_hash, entropy_bits)
       IN  /\ checksum_bits' = r.checksum_bits
           /\ IF r.panic # "none"
              THEN /\ Panic(r.panic)
                   /\ UNCHANGED final_bitstream
              ELSE /\ final_bitstream' = r.final_bitstream
                   /\ pc' = "encode"
                   /\ UNCHANGED << failure, exit_code >>
    /\ UNCHANGED << flip, prompt, args, words, entropy_bits, flips, rejected, mode,
                    bitstream, sha256_hash, mnemonic, printed >>

\* main, line 168
Encode ==
    /\ pc = "encode"
    /\ LET r == bitstream_to_mnemonic(final_bitstream, BIP39_WORDLIST)
       IN  IF r.panic # "none"
           THEN /\ Panic(r.panic)
                /\ UNCHANGED mnemonic
           ELSE /\ mnemonic' = r.mnemonic
                /\ pc' = "print"
                /\ UNCHANGED << failure, exit_code >>
    /\ UNCHANGED << flip, prompt, args, words, entropy_bits, flips, rejected, mode,
                    bitstream, sha256_hash, checksum_bits, final_bitstream,
                    printed >>

\* main, line 171, and the return from main
PrintMnemonic ==
    /\ pc = "print"
    /\ printed' = MnemonicLine(Join(mnemonic, " "))
    /\ pc' = "done"
    /\ exit_code' = ExitSuccess
    /\ UNCHANGED << flip, prompt, args, words, entropy_bits, flips, rejected, mode,
                    bitstream, sha256_hash, checksum_bits, final_bitstream,
                    mnemonic, failure >>

Next ==
    \/ ParseArgs
    \/ Heads
    \/ Tails
    \/ QuitFlipping
    \/ QuitProgram
    \/ Preload
    \/ Fill
    \/ InvalidInput
    \/ Pack
    \/ Hash
    \/ ExtractChecksum
    \/ Encode
    \/ PrintMnemonic

Spec == Init /\ [][Next]_vars

-----------------------------------------------------------------------------
(* prompt_for_coin_flips on its own, with an input source that does not
   supply unrecognized tokens for ever *)

\* a token of one of the six recognized arms is read
ValidToken ==
    \/ Heads
    \/ Tails
    \/ QuitFlipping
    \/ QuitProgram
    \/ Preload
    \/ Fill

CollectNext ==
    \/ ParseArgs
    \/ Heads
    \/ Tails
    \/ QuitFlipping
    \/ QuitProgram
    \/ Preload
    \/ Fill
    \/ InvalidInput

CollectLiveSpec == Init /\ [][CollectNext]_vars /\ WF_vars(ValidToken)

-----------------------------------------------------------------------------
(* flips_to_bitstream on its own: every flip sequence up to MaxPackLen *)

RECURSIVE BitSeqs(_)
BitSeqs(n) ==
    IF n = 0 THEN {<<>>}
    ELSE LET shorter == BitSeqs(n - 1)
         IN  shorter \cup { Append(s, b) : s \in {t \in shorter : Len(t) = n - 1}, b \in {0, 1} }

PackInit ==
    /\ args = [f \in Flags |-> f = "twelve"]
    /\ pc = "pack"
    /\ words = 12
    /\ entropy_bits = 128
    /\ flips \in BitSeqs(MaxPackLen)
    /\ prompt = 0
    /\ flip = NoToken
    /\ rejected = FALSE
    /\ mode = "none"
    /\ bitstream = <<>>
    /\ sha256_hash = <<>>
    /\ checksum_bits = <<>>
    /\ final_bitstream = <<>>
    /\ mnemonic = <<>>
    /\ printed = ""
    /\ exit_code = NoExit
    /\ failure = "none"

PackNext == Pack

PackSpec == PackInit /\ [][PackNext]_vars

-----------------------------------------------------------------------------
(* extract_checksum on its own: every strength, every leading digest byte *)

\* digests whose first byte takes every u8 value
DigestInputs ==
    { [SampleDigest(s) EXCEPT ![1] = b] : s \in 0..MaxDigestSeed, b \in 0..255 }

\* packed buffers of ent bits: one repeated byte
BufferInputs(ent) == { [k \in 1..(ent \div 8) |-> b] : b \in {0, 255} }

ChecksumInit ==
    /\ entropy_bits \in SupportedEnt
    /\ words = (entropy_bits + entropy_bits \div 32) \div 11
    /\ args = [f \in Flags |-> SelectWords([g \in Flags |-> g = f]) = words]
    /\ pc = "checksum"
    /\ bitstream \in BufferInputs(entropy_bits)
    /\ flips = BytesToBits(bitstream)
    /\ sha256_hash \in DigestInputs
    /\ prompt = 0
    /\ flip = NoToken
    /\ rejected = FALSE
    /\ mode = "none"
    /\ checksum_bits = <<>>
    /\ final_bitstream = <<>>
    /\ mnemonic = <<>>
    /\ printed = ""
    /\ exit_code = NoExit
    /\ failure = "none"

ChecksumNext == ExtractChecksum

ChecksumSpec == ChecksumInit /\ [][ChecksumNext]_vars

-----------------------------------------------------------------------------
(* Properties *)

\* flags set on the command line
SetFlags == {f \in Flags : args[f]}

\* the process has ended
Ended == pc \in {"done", "failed", "aborted"}

\* the collector returned a bit sequence to main
CollectorComplete == mode \in {"flips", "qf", "fill", "preload"}

AllTails(fl) == \A j \in 1..Len(fl) : fl[j] = 0

\* C1: for every supported ENT a run whose collection completes with ENT
\* bits ends with a mnemonic of (ENT + ENT/32)/11 words, and 256 tails give
\* 24 words of which the first is the wordlist entry at index 0.
C1_MnemonicForEveryEnt ==
    (Ended /\ CollectorComplete /\ entropy_bits \in SupportedEnt
           /\ Len(flips) = entropy_bits)
    => /\ pc = "done"
       /\ Len(mnemonic) = (entropy_bits + entropy_bits \div 32) \div 11
       /\ Len(mnemonic) \in SupportedWords
       /\ (entropy_bits = 256 /\ AllTails(flips))
              => (Len(mnemonic) = 24 /\ mnemonic[1] = BIP39_WORDLIST[1])

\* C2 (as stated): an abort at any partial count ends the process with a
\* code distinct from the code of a normal completion.
C2_AbortCodeDistinct ==
    pc = "aborted" => exit_code # ExitSuccess

\* C2 (amended): an abort at any partial count ends the process with exit
\* code 0, the code a normal completion ends with as well (and not the code
\* of a panic); the two differ in that the abort printed no mnemonic.
C2_AbortExitsLikeSuccess ==
    /\ pc = "aborted" => (exit_code = ExitSuccess /\ exit_code # ExitPanic
                          /\ printed = "")
    /\ pc = "done" => (exit_code = ExitSuccess /\ printed # "")

C2_Witness ==
    pc = "aborted" /\ Len(flips) > 0 /\ Len(flips) < entropy_bits

\* C3: once qq is received the run is aborted for good: no packing, hashing,
\* checksum extraction or encoding runs and nothing of a checksum or
\* mnemonic is produced or printed.
C3_AbortIsTerminal ==
    mode = "qq" => /\ pc = "aborted"
                   /\ bitstream = <<>>
                   /\ sha256_hash = <<>>
                   /\ checksum_bits = <<>>
                   /\ final_bitstream = <<>>
                   /\ mnemonic = <<>>
                   /\ printed = ""
                   /\ failure = "none"

C3_Witness ==
    mode = "qq" /\ pc = "aborted" /\ Len(flips) > 1 /\ entropy_bits = 128

\* C4: the preset (128 bits) requested for N in {160,192,224,256} is handed
\* on as it is, never cut or padded to N, and the run ends in the
\* final-bit-length assertion of the checksum stage with no mnemonic.
C4_PresetMismatchFails ==
    (mode = "preload" /\ entropy_bits # 128)
    => /\ Len(flips) = 128
       /\ flips = PresetBits
       /\ pc \in {"pack", "hash", "checksum", "failed"}
       /\ pc = "failed" => (failure = "final_length" /\ exit_code = ExitPanic)
       /\ final_bitstream = <<>>
       /\ mnemonic = <<>>
       /\ printed = ""

C4_Witness ==
    /\ mode = "preload" /\ entropy_bits \in {160, 192, 224, 256}
    /\ pc = "failed" /\ failure = "final_length"

\* C5: with no selector or with more than one selector the run ends in a
\* configuration error with a nonzero exit and collection never begins.
C5_SelectorConflictRejected ==
    Cardinality(SetFlags) # 1
    => /\ pc \in {"parse", "failed"}
       /\ pc = "failed" => (failure = "no_word_count" /\ exit_code # ExitSuccess)
       /\ prompt = 0
    /\ flip = NoToken
       /\ flips = <<>>

C7_InvalidIsSelfLoop ==
    [][ (pc = "collect" /\ rejected')
        => /\ pc' = "collect"
           /\ flips' = flips
           /\ prompt' = prompt
           /\ prompt' = Len(flips) + 1
           /\ mode' = mode
           /\ entropy_bits' = entropy_bits
           /\ exit_code' = NoExit ]_vars

C7_Witness ==
    pc = "collect" /\ rejected /\ Len(flips) > 0 /\ prompt = Len(flips) + 1

\* C8: a run in which an internal check fails ends in failure with nothing
\* printed; a mnemonic is printed only after every stage and check passed.
C8_FailClosed ==
    /\ pc = "failed" => (printed = "" /\ exit_code = ExitPanic /\ failure # "none")
    /\ printed # ""
       => /\ pc = "done"
          /\ failure = "none"
          /\ Len(final_bitstream) = entropy_bits + entropy_bits \div 32
          /\ Len(final_bitstream) = 11 * Len(mnemonic)
          /\ Len(mnemonic) \in SupportedWords
          /\ printed = MnemonicLine(Join(mnemonic, " "))

C8_Witness ==
    pc = "failed" /\ failure = "bitstream_length" /\ Len(final_bitstream) > 132

\* C9: the packer returns ceil(n/8) bytes, bit j of the input is bit
\* (7 - j mod 8) of byte floor(j/8), and the unused low-order bits of a
\* partial last byte are zero.
C9_PackerMsbFirst ==
    pc = "hash"
    => LET n == Len(flips)
       IN  /\ Len(bitstream) = (n + 7) \div 8
           /\ \A k \in 1..Len(bitstream) : bitstream[k] \in 0..255
           /\ \A j \in 0..(n - 1) :
                 BitAt(bitstream[(j \div 8) + 1], 7 - (j % 8)) = flips[j + 1]
           /\ \A j \in n..(8 * Len(bitstream) - 1) :
                 BitAt(bitstream[(j \div 8) + 1], 7 - (j % 8)) = 0

C9_Witness ==
    /\ pc = "hash" /\ Len(flips) > 8 /\ Len(flips) % 8 # 0
    /\ flips[Len(flips)] = 1 /\ flips[1] = 0

\* C10: the checksum has ENT/32 bits, the i-th being bit (7 - i mod 8) of
\* digest byte floor(i/8): the high-order prefix of the digest, whatever
\* the packed buffer is.
C10_ChecksumIsDigestPrefix ==
    (pc = "encode" \/ (pc = "failed" /\ failure = "final_length"))
    => /\ Len(checksum_bits) = entropy_bits \div 32
       /\ \A i \in 0..(Len(checksum_bits) - 1) :
             checksum_bits[i + 1] = BitAt(sha256_hash[(i \div 8) + 1], 7 - (i % 8))

C10_Witness ==
    /\ pc = "encode" /\ entropy_bits = 256 /\ Len(checksum_bits) = 8
    /\ checksum_bits[1] = 1 /\ checksum_bits[8] = 0

\* C11: for a raw sequence of ENT bits the checksum stage does not fail and
\* returns the raw bits followed by the checksum bits, ENT + ENT/32 bits in
\* all, a multiple of 11.
C11_FinalIsRawThenChecksum ==
    (Len(flips) = entropy_bits /\ entropy_bits \in SupportedEnt)
    => /\ failure # "final_length"
       /\ (pc \in {"encode", "print", "done"}
           \/ (pc = "failed" /\ failure = "bitstream_length"))
          => /\ final_bitstream = flips \o checksum_bits
             /\ Len(final_bitstream) = entropy_bits + entropy_bits \div 32
             /\ Len(final_bitstream) % 11 = 0

C11_Witness ==
    /\ pc = "failed" /\ failure = "bitstream_length" /\ entropy_bits = 224
    /\ Len(final_bitstream) = 231
    /\ mode = "flips" /\ flips[1] = 1 /\ flips[3] = 0

\* unsigned big-endian value of bits 11i .. 11i+10 (0-based) of fb
GroupValue(fb, i) ==
    LET b(k) == fb[11 * i + k + 1]
    IN  1024 * b(0) + 512 * b(1) + 256 * b(2) + 128 * b(3) + 64 * b(4)
        + 32 * b(5) + 16 * b(6) + 8 * b(7) + 4 * b(8) + 2 * b(9) + b(10)

\* C12: the word at position i is the wordlist entry at the big-endian value
\* of bits 11i .. 11i+10 of the final bit sequence, that value lies in
\* 0..2047 and the index-range assertion never fails.
C12_WordsAreGroupIndices ==
    /\ failure # "index_range"
    /\ \A i \in 0..(Len(mnemonic) - 1) :
          /\ GroupValue(final_bitstream, i) \in 0..2047
          /\ mnemonic[i + 1] = BIP39_WORDLIST[GroupValue(final_bitstream, i) + 1]
    /\ pc \in {"print", "done"} => Len(mnemonic) * 11 = Len(final_bitstream)

C12_Witness ==
    /\ pc = "print" /\ Len(mnemonic) = 12
    /\ mnemonic[1] # mnemonic[2]
    /\ mnemonic[1] # BIP39_WORDLIST[1] /\ mnemonic[1] # BIP39_WORDLIST[2048]

\* C13: fill or qf with k bits collected completes the collection at once
\* with the k bits unchanged in front, followed by N - k bits, each 0 or 1;
\* for fill each of them is 1.
C13_FillKeepsPrefix ==
    [][ (pc = "collect" /\ flip' \in {"fill", "qf"})
        => /\ pc' = "pack"
           /\ mode' = flip'
           /\ Len(flips') = entropy_bits
           /\ SubSeq(flips', 1, Len(flips)) = flips
           /\ \A j \in (Len(flips) + 1)..entropy_bits :
                 /\ flips'[j] \in {0, 1}
                 /\ flip' = "fill" => flips'[j] = 1 ]_vars

C13_Witness ==
    /\ flip = "qf" /\ mode = "qf" /\ pc = "pack" /\ prompt > 2
    /\ Len(flips) = entropy_bits
    /\ \E j \in prompt..Len(flips) : flips[j] # flips[prompt]

\* C14: an accepted h appends 1 and an accepted t appends 0 at the end of
\* the collected bits; the collector stays in COLLECTING below N bits and
\* completes exactly on the N-th; unrecognized tokens in between change
\* nothing of the sequence.
C14_SingleFlipAppends ==
    [][ /\ (pc = "collect" /\ flip' \in {"h", "t"})
           => /\ flips' = Append(flips, IF flip' = "h" THEN 1 ELSE 0)
              /\ IF Len(flips') = entropy_bits
                 THEN pc' = "pack" /\ mode' = "flips"
                 ELSE pc' = "collect" /\ Len(flips') < entropy_bits /\ mode' = "none"
        /\ (pc = "collect" /\ flip' \in InvalidTokens) => flips' = flips ]_vars

C14_Witness ==
    /\ flip = "h" /\ mode = "flips" /\ pc = "pack" /\ Len(flips) = entropy_bits
    /\ flips[1] = 1 /\ flips[2] = 0 /\ flips[Len(flips)] = 1

\* C15: the number of collected bits never decreases during collection and
\* never exceeds N, and when the input does not supply unrecognized tokens
\* for ever the collector leaves COLLECTING, complete or aborted.
C15_CollectionEnds ==
    /\ [](Len(flips) <= entropy_bits)
    /\ [][pc' = "collect" => Len(flips') >= Len(flips)]_vars
    /\ (pc = "collect") ~> (pc \in {"pack", "aborted"})

C15_Witness ==
    /\ pc = "pack" /\ mode = "flips" /\ entropy_bits = 256
    /\ Len(flips) = 256 /\ prompt = 256

\* the hard-coded pattern: eleven groups 11111110000, then 1111111
PresetPattern == [j \in 1..128 |-> IF (j - 1) % 11 < 7 THEN 1 ELSE 0]

\* C16: the preset requested after k collected bits returns exactly the
\* hard-coded 128-bit pattern, with none of the k bits, whatever N is.
C16_PresetReplacesFlips ==
    [][ (pc = "collect" /\ flip' = "preload")
        => /\ flips' = PresetPattern
           /\ Len(flips') = 128
           /\ pc' = "pack"
           /\ mode' = "preload" ]_vars

C16_Witness ==
    /\ flip = "preload" /\ mode = "preload" /\ pc = "pack"
    /\ prompt > 8 /\ entropy_bits = 192 /\ flips = PresetPattern

====
